---- MODULE Spec2Model ----
(***************************************************************************)
(* Model of the AutoYt2mp3 record store (tunes_database.json) and of the   *)
(* three programs that read and write it:                                  *)
(*   - code/update_db_from_txt.py  main          (discovery pipeline)      *)
(*   - code/conversion.py          process_file  (conversion pipeline)     *)
(*   - manage_database.py          update_project (manual curation)        *)
(* The browser is the environment: every search result and every outcome   *)
(* of the converter page is a nondeterministic input of the action that    *)
(* consumes it.                                                            *)
(***************************************************************************)
EXTENDS Integers, Sequences, FiniteSets, TLC

VARIABLES
    database_file,  \* content of tunes_database.json: a sequence of records
    conv,           \* locals of conversion.py process_file, with what the
                    \* run loaded, whether that read failed, and what
                    \* happened to each entry
    disc,           \* locals of update_db_from_txt.py main, with whether
                    \* the read failed and the url the search returned
                    \* for each query
    faulty,         \* TRUE when a read of the store file may fail
    concurrent,     \* TRUE when the programs may run at the same time
    runs,           \* number of program starts so far
    driver          \* the browser session of process_file: its tabs, the
                    \* tab it controls, and original_window

vars == <<database_file, conv, disc, faulty, concurrent, runs, driver>>

----------------------------------------------------------------------------
(* Bounds *)

MaxRecords == 2     \* records the store may hold
MaxQueries == 2     \* lines of the input file of one discovery run
MaxRuns    == 3     \* program starts (pipelines and manual updates)
MaxTabs    == 2     \* tabs the converter site may have open at a time

----------------------------------------------------------------------------
(* Values *)

\* json values of the "done" field: false, true, "timeout"
DoneFalse   == "false"
DoneTrue    == "true"
DoneTimeout == "timeout"

\* A url is kept as the three parts urlparse / parse_qs look at.  v = "" is
\* a url without a v parameter.
MkUrl(h, p, v) == [host |-> h, path |-> p, v |-> v]

NoUrl == MkUrl("", "", "")      \* None returned by the search

\* hrefs of search results: two spellings of one video, and a watch url of
\* a host extract_video_id does not know
URLS ==
    { MkUrl("www.youtube.com",   "/watch", "abc123"),
      MkUrl("youtube.com",       "/watch", "abc123"),
      MkUrl("music.youtube.com", "/watch", "abc123") }

QUERIES == {"Song A", "Song B"}

\* the hrefs the results page of a query may show first
HREFS(query) ==
    IF query = "Song A"
    THEN { MkUrl("www.youtube.com",   "/watch", "abc123"),
           MkUrl("music.youtube.com", "/watch", "abc123") }
    ELSE { MkUrl("youtube.com",       "/watch", "abc123"),
           MkUrl("music.youtube.com", "/watch", "abc123") }

DOWNLOAD_DIRS == {"dl"}

PROJECTS == {"mix"}

NoId == ""      \* None returned by extract_video_id

NoFile == ""    \* None returned by wait_for_download

\* what wait_for_download returns: a new file of the directory, or None
DOWNLOADED_FILES == {"song.mp3", NoFile}

extract_video_id(youtube_url) ==
    IF youtube_url.host \in {"www.youtube.com", "youtube.com"}
    THEN IF youtube_url.path = "/watch"
         THEN youtube_url.v
         ELSE NoId
    ELSE NoId

----------------------------------------------------------------------------
(* Store access, the same three functions in each program *)

\* the set of outcomes of the read inside load_database
LoadFailures == IF faulty THEN BOOLEAN ELSE {FALSE}

\* load_database handing out the file content although the read failed
load_database_unguarded(fails) == database_file

load_database(fails) == IF fails THEN <<>> ELSE database_file

\* save_database(data) is  database_file' = data

RECURSIVE FirstUrlMatch(_, _, _)
FirstUrlMatch(database, url, i) ==
    IF i > Len(database) THEN 0
    ELSE IF database[i].url = url THEN i
    ELSE FirstUrlMatch(database, url, i + 1)

\* update_database_entry writing the entry without its project
update_database_entry_no_project(database, url, download_path, done_status) ==
    LET i == FirstUrlMatch(database, url, 1) IN
    IF i = 0 THEN database
    ELSE [database EXCEPT ![i] =
            [@ EXCEPT !.done = done_status,
                      !.project = "",
                      !.download_path =
                          IF download_path # "" THEN download_path ELSE @]]

\* the list update_database_entry saves
update_database_entry(database, url, download_path, done_status) ==
    LET i == FirstUrlMatch(database, url, 1) IN
    IF i = 0 THEN database
    ELSE [database EXCEPT ![i] =
            [@ EXCEPT !.done = done_status,
                      !.download_path =
                          IF download_path # "" THEN download_path ELSE @]]

RECURSIVE FirstIdMatch(_, _, _)
FirstIdMatch(database, video_id, i) ==
    IF i > Len(database) THEN 0
    ELSE IF extract_video_id(database[i].url) = video_id THEN i
    ELSE FirstIdMatch(database, video_id, i + 1)

\* check_duplicate comparing the url strings instead of the identifiers
check_duplicate_by_url(new_url, database) ==
    FirstUrlMatch(database, new_url, 1)

\* check_duplicate comparing the url strings when the url has no identifier
check_duplicate_url_fallback(new_url, database) ==
    LET new_video_id == extract_video_id(new_url) IN
    IF new_video_id = NoId THEN FirstUrlMatch(database, new_url, 1)
    ELSE FirstIdMatch(database, new_video_id, 1)

\* index of the entry check_duplicate returns, 0 for None
check_duplicate(new_url, database) ==
    LET new_video_id == extract_video_id(new_url) IN
    IF new_video_id = NoId THEN 0
    ELSE FirstIdMatch(database, new_video_id, 1)

----------------------------------------------------------------------------
(* Process states *)

ConvIdle ==
    [pc |-> "idle", data |-> <<>>, idx |-> 0, download_dir |-> "",
     processed_count |-> 0, successful_downloads |-> 0,
     downloaded_file |-> "",
     outcome |-> <<>>, loaded |-> <<>>, read_failed |-> FALSE]

DiscIdle ==
    [pc |-> "idle", queries |-> <<>>, qi |-> 0, database |-> <<>>,
     new_entries |-> <<>>, duplicates_found |-> <<>>,
     processed_count |-> 0, results |-> <<>>, read_failed |-> FALSE]

\* a program that has ended is forgotten as soon as anything else happens
Forget(p, idle) == IF p.pc \in {"done", "aborted", "killed"} THEN idle ELSE p

\* the session build_driver returns: one tab, handle 0, under control
DriverStart ==
    [window_handles |-> {0}, current_window_handle |-> 0,
     original_window |-> 0]

ConvOff == conv.pc \in {"idle", "done", "killed"}
DiscOff == disc.pc \in {"idle", "done", "aborted"}

Init ==
    /\ database_file = <<>>
    /\ conv = ConvIdle
    /\ disc = DiscIdle
    /\ faulty = FALSE
    /\ concurrent = FALSE
    /\ runs = 0
    /\ driver = DriverStart

----------------------------------------------------------------------------
(* manage_database.py *)

\* update_project with a valid entry number and a non-empty new project
update_project(entry_num, new_project, fails) ==
    LET database == load_database(fails) IN
    /\ runs < MaxRuns
    /\ concurrent \/ (ConvOff /\ DiscOff)
    /\ database # <<>>
    /\ entry_num \in 1..Len(database)
    /\ database_file' = [database EXCEPT ![entry_num].project = new_project]
    /\ runs' = runs + 1
    /\ conv' = Forget(conv, ConvIdle)
    /\ disc' = Forget(disc, DiscIdle)
    /\ UNCHANGED <<faulty, concurrent, driver>>

----------------------------------------------------------------------------
(* conversion.py process_file *)

\* Selected taking only the pending entries
Selected_pending_only(item) == item.done = DoneFalse

Selected(item) == item.done # DoneTrue      \* item.get("done") is not True

\* load, count the entries to process, return when there is none
ConvStart(download_dir, fails) ==
    LET data == load_database(fails)
        total_entries == Len(SelectSeq(data, Selected))
    IN
    /\ ConvOff
    /\ runs < MaxRuns
    /\ concurrent \/ DiscOff
    /\ runs' = runs + 1
    /\ conv' = [ConvIdle EXCEPT
                  !.pc = IF total_entries = 0 THEN "done" ELSE "loop",
                  !.data = data,
                  !.idx = 1,
                  !.download_dir = download_dir,
                  !.outcome = [i \in 1..Len(data) |-> "none"],
                  !.loaded = data,
                  !.read_failed = fails]
    /\ disc' = Forget(disc, DiscIdle)
    /\ UNCHANGED <<database_file, faulty, concurrent, driver>>

InLoop == conv.pc = "loop" /\ conv.idx <= Len(conv.data)

Item == conv.data[conv.idx]

\* the loop goes on with the next entry without reaching the save
Continue(what, done_status, counted) ==
    conv' = [conv EXCEPT
               !.idx = @ + 1,
               !.data[conv.idx].done = done_status,
               !.processed_count = @ + counted,
               !.outcome[conv.idx] = what]

ConvSkipDone ==
    /\ InLoop
    /\ ~Selected(Item)
    /\ Continue("skipped", Item.done, 0)
    /\ disc' = Forget(disc, DiscIdle)
    /\ UNCHANGED <<database_file, faulty, concurrent, runs, driver>>

\* ConvInputNotFound marking the entry as timeout before it continues
ConvInputNotFound_marks ==
    /\ InLoop
    /\ Selected(Item)
    /\ Continue("notfound", DoneTimeout, 0)
    /\ disc' = Forget(disc, DiscIdle)
    /\ UNCHANGED <<database_file, faulty, concurrent, runs, driver>>

ConvInputNotFound ==
    /\ InLoop
    /\ Selected(Item)
    /\ Continue("notfound", Item.done, 0)
    /\ disc' = Forget(disc, DiscIdle)
    /\ UNCHANGED <<database_file, faulty, concurrent, runs, driver>>

ConvConvertNotFound ==
    /\ InLoop
    /\ Selected(Item)
    /\ Continue("notfound", Item.done, 0)
    /\ disc' = Forget(disc, DiscIdle)
    /\ UNCHANGED <<database_file, faulty, concurrent, runs, driver>>

\* ConvException without the except branch: the exception ends the run
ConvException_uncaught ==
    /\ InLoop
    /\ Selected(Item)
    /\ conv' = [conv EXCEPT !.pc = "done", !.outcome[conv.idx] = "exception"]
    /\ disc' = Forget(disc, DiscIdle)
    /\ UNCHANGED <<database_file, faulty, concurrent, runs, driver>>

\* a step of the try block raises: the except branch marks the item and
\* continues
ConvException ==
    /\ InLoop
    /\ Selected(Item)
    /\ Continue("exception", DoneTimeout, 1)
    /\ disc' = Forget(disc, DiscIdle)
    /\ UNCHANGED <<database_file, faulty, concurrent, runs, driver>>

\* ConvTimeout setting item["download_path"] as the success branch does
ConvTimeout_sets_path(fails) ==
    /\ InLoop
    /\ Selected(Item)
    /\ database_file' = update_database_entry(load_database(fails), Item.url,
                                              conv.download_dir, DoneTimeout)
    /\ conv' = [conv EXCEPT
                  !.pc = "save",
                  !.data[conv.idx].done = DoneTimeout,
                  !.data[conv.idx].download_path = conv.download_dir,
                  !.processed_count = @ + 1,
                  !.outcome[conv.idx] = "timeout"]
    /\ disc' = Forget(disc, DiscIdle)
    /\ UNCHANGED <<faulty, concurrent, runs, driver>>

\* ConvTimeout without item["done"] = "timeout": only the file is updated
ConvTimeout_unmarked(fails) ==
    /\ InLoop
    /\ Selected(Item)
    /\ database_file' = update_database_entry(load_database(fails), Item.url,
                                              conv.download_dir, DoneTimeout)
    /\ conv' = [conv EXCEPT
                  !.pc = "save",
                  !.processed_count = @ + 1,
                  !.outcome[conv.idx] = "timeout"]
    /\ disc' = Forget(disc, DiscIdle)
    /\ UNCHANGED <<faulty, concurrent, runs, driver>>

\* the Download button does not appear: item marked, update_database_entry
ConvTimeout(fails) ==
    /\ InLoop
    /\ Selected(Item)
    /\ database_file' = update_database_entry(load_database(fails), Item.url,
                                              conv.download_dir, DoneTimeout)
    /\ conv' = [conv EXCEPT
                  !.pc = "save",
                  !.data[conv.idx].done = DoneTimeout,
                  !.processed_count = @ + 1,
                  !.outcome[conv.idx] = "timeout"]
    /\ disc' = Forget(disc, DiscIdle)
    /\ UNCHANGED <<faulty, concurrent, runs, driver>>

\* ConvSuccess taking a download that was not detected as a timeout
ConvSuccess_needs_file(downloaded_file, fails) ==
    LET done_status == IF downloaded_file # NoFile THEN DoneTrue
                       ELSE DoneTimeout
    IN
    /\ InLoop
    /\ Selected(Item)
    /\ database_file' = update_database_entry(load_database(fails), Item.url,
                                              conv.download_dir, done_status)
    /\ conv' = [conv EXCEPT
                  !.pc = "save",
                  !.downloaded_file = downloaded_file,
                  !.data[conv.idx].done = done_status,
                  !.data[conv.idx].download_path = conv.download_dir,
                  !.successful_downloads = @ + 1,
                  !.processed_count = @ + 1,
                  !.outcome[conv.idx] = "success"]
    /\ disc' = Forget(disc, DiscIdle)
    /\ UNCHANGED <<faulty, concurrent, runs, driver>>

\* the Download button is clicked, wait_for_download returns a file or None:
\* item marked, update_database_entry
ConvSuccess(downloaded_file, fails) ==
    /\ InLoop
    /\ Selected(Item)
    /\ database_file' = update_database_entry(load_database(fails), Item.url,
                                              conv.download_dir, DoneTrue)
    /\ conv' = [conv EXCEPT
                  !.pc = "save",
                  !.downloaded_file = downloaded_file,
                  !.data[conv.idx].done = DoneTrue,
                  !.data[conv.idx].download_path = conv.download_dir,
                  !.successful_downloads = @ + 1,
                  !.processed_count = @ + 1,
                  !.outcome[conv.idx] = "success"]
    /\ disc' = Forget(disc, DiscIdle)
    /\ UNCHANGED <<faulty, concurrent, runs, driver>>

\* save_database(data) after the try block
ConvSave ==
    /\ conv.pc = "save"
    /\ database_file' = conv.data
    /\ conv' = [conv EXCEPT !.pc = "loop", !.idx = @ + 1]
    /\ disc' = Forget(disc, DiscIdle)
    /\ UNCHANGED <<faulty, concurrent, runs, driver>>

\* summary and final save
ConvFinish ==
    /\ conv.pc = "loop"
    /\ conv.idx > Len(conv.data)
    /\ database_file' = conv.data
    /\ conv' = [conv EXCEPT !.pc = "done"]
    /\ disc' = Forget(disc, DiscIdle)
    /\ UNCHANGED <<faulty, concurrent, runs, driver>>

\* the process is killed during the run: its variables are gone, the store
\* file stays as it is
ConvKill ==
    /\ conv.pc \in {"loop", "save"}
    /\ conv' = [ConvIdle EXCEPT !.pc = "killed"]
    /\ disc' = Forget(disc, DiscIdle)
    /\ UNCHANGED <<database_file, faulty, concurrent, runs, driver>>

----------------------------------------------------------------------------
(* update_db_from_txt.py main *)

\* the input files: Song A, Song B, Song A, ... up to MaxQueries lines
QueryLists ==
    {[i \in 1..n |-> IF i % 2 = 1 THEN "Song A" ELSE "Song B"] :
        n \in 1..MaxQueries}

DiscStart(queries, fails) ==
    /\ DiscOff
    /\ runs < MaxRuns
    /\ concurrent \/ ConvOff
    /\ runs' = runs + 1
    /\ disc' = [DiscIdle EXCEPT
                  !.pc = "loop",
                  !.queries = queries,
                  !.qi = 1,
                  !.database = load_database(fails),
                  !.read_failed = fails]
    /\ conv' = Forget(conv, ConvIdle)
    /\ UNCHANGED <<database_file, faulty, concurrent, driver>>

InQueries == disc.pc = "loop" /\ disc.qi <= Len(disc.queries)

Query == disc.queries[disc.qi]

\* search_query_and_get_first_url returns None
DiscNoResult ==
    /\ InQueries
    /\ disc' = [disc EXCEPT
                  !.qi = @ + 1,
                  !.processed_count = @ + 1,
                  !.results = Append(@, NoUrl)]
    /\ conv' = Forget(conv, ConvIdle)
    /\ UNCHANGED <<database_file, faulty, concurrent, runs, driver>>

\* DiscSearchRaises saving the entries found so far before main ends
DiscSearchRaises_saves ==
    /\ InQueries
    /\ database_file' = disc.database \o disc.new_entries
    /\ disc' = [disc EXCEPT !.pc = "aborted"]
    /\ conv' = Forget(conv, ConvIdle)
    /\ UNCHANGED <<faulty, concurrent, runs, driver>>

\* search_query_and_get_first_url raises (the retried driver.get fails, or a
\* click or an attribute read raises): the finally block runs and main ends
DiscSearchRaises ==
    /\ InQueries
    /\ disc' = [disc EXCEPT !.pc = "aborted"]
    /\ conv' = Forget(conv, ConvIdle)
    /\ UNCHANGED <<database_file, faulty, concurrent, runs, driver>>

DiscDuplicate(url) ==
    LET duplicate == check_duplicate(url, disc.database) IN
    /\ InQueries
    /\ url \in HREFS(Query)
    /\ duplicate # 0
    /\ disc' = [disc EXCEPT
                  !.qi = @ + 1,
                  !.processed_count = @ + 1,
                  !.results = Append(@, url),
                  !.duplicates_found =
                      Append(@, [new_query |-> Query,
                                 existing_entry |-> disc.database[duplicate]])]
    /\ conv' = Forget(conv, ConvIdle)
    /\ UNCHANGED <<database_file, faulty, concurrent, runs, driver>>

\* result_obj created as already downloaded
result_obj_done(q, url) ==
    [title |-> q, url |-> url, done |-> DoneTrue,
     download_path |-> "", project |-> ""]

result_obj(q, url) ==
    [title |-> q, url |-> url, done |-> DoneFalse,
     download_path |-> "", project |-> ""]

DiscNew(url) ==
    /\ InQueries
    /\ url \in HREFS(Query)
    /\ check_duplicate(url, disc.database) = 0
    /\ Len(disc.database) + Len(disc.new_entries) < MaxRecords
    /\ disc' = [disc EXCEPT
                  !.qi = @ + 1,
                  !.processed_count = @ + 1,
                  !.results = Append(@, url),
                  !.new_entries = Append(@, result_obj(Query, url))]
    /\ conv' = Forget(conv, ConvIdle)
    /\ UNCHANGED <<database_file, faulty, concurrent, runs, driver>>

\* DiscFinish putting the new entries in front of the loaded ones
DiscFinish_prepends ==
    /\ disc.pc = "loop"
    /\ disc.qi > Len(disc.queries)
    /\ database_file' = IF disc.new_entries # <<>>
                        THEN disc.new_entries \o disc.database
                        ELSE database_file
    /\ disc' = [disc EXCEPT !.pc = "done"]
    /\ conv' = Forget(conv, ConvIdle)
    /\ UNCHANGED <<faulty, concurrent, runs, driver>>

\* after the loop: extend and save when there are new entries
DiscFinish ==
    /\ disc.pc = "loop"
    /\ disc.qi > Len(disc.queries)
    /\ database_file' = IF disc.new_entries # <<>>
                        THEN disc.database \o disc.new_entries
                        ELSE database_file
    /\ disc' = [disc EXCEPT !.pc = "done"]
    /\ conv' = Forget(conv, ConvIdle)
    /\ UNCHANGED <<faulty, concurrent, runs, driver>>

----------------------------------------------------------------------------

Next ==
    \/ \E n \in 1..MaxRecords, p \in PROJECTS, f \in LoadFailures :
           update_project(n, p, f)
    \/ \E d \in DOWNLOAD_DIRS, f \in LoadFailures : ConvStart(d, f)
    \/ ConvSkipDone
    \/ ConvInputNotFound
    \/ ConvConvertNotFound
    \/ ConvException
    \/ \E f \in LoadFailures : ConvTimeout(f)
    \/ \E df \in DOWNLOADED_FILES, f \in LoadFailures : ConvSuccess(df, f)
    \/ ConvSave
    \/ ConvFinish
    \/ ConvKill
    \/ \E qs \in QueryLists, f \in LoadFailures : DiscStart(qs, f)
    \/ DiscNoResult
    \/ DiscSearchRaises
    \/ \E u \in URLS : DiscDuplicate(u)
    \/ \E u \in URLS : DiscNew(u)
    \/ DiscFinish

Spec == Init /\ [][Next]_vars

\* the same programs when a read of the store file may fail
InitFault ==
    /\ database_file = <<>>
    /\ conv = ConvIdle
    /\ disc = DiscIdle
    /\ faulty = TRUE
    /\ concurrent = FALSE
    /\ runs = 0
    /\ driver = DriverStart

SpecFault == InitFault /\ [][Next]_vars

\* the same programs when they may run at the same time
InitConc ==
    /\ database_file = <<>>
    /\ conv = ConvIdle
    /\ disc = DiscIdle
    /\ faulty = FALSE
    /\ concurrent = TRUE
    /\ runs = 0
    /\ driver = DriverStart

SpecConc == InitConc /\ [][Next]_vars

TypeOK ==
    /\ Len(database_file) <= MaxRecords
    /\ \A i \in 1..Len(database_file) :
          /\ database_file[i].done \in {DoneFalse, DoneTrue, DoneTimeout}
          /\ database_file[i].url \in URLS
          /\ database_file[i].title \in QUERIES
    /\ runs \in 0..MaxRuns

----------------------------------------------------------------------------
(* Properties *)

Ids(database) == {extract_video_id(database[i].url) : i \in 1..Len(database)}

\* C1: a record whose persisted status is done keeps status done across
\* every write of the store, and a record in timeout never goes back to
\* pending: the only status changes are pending->timeout, pending->done,
\* timeout->done and timeout->timeout.
C1_DoneNeverReverted ==
    [][\A i \in 1..Len(database_file) :
          /\ i <= Len(database_file')
          /\ database_file[i].done = DoneTrue
                => database_file'[i].done = DoneTrue
          /\ database_file[i].done = DoneTimeout
                => database_file'[i].done # DoneFalse]_vars

\* C2: no two records of the store have urls from which extract_video_id
\* yields the same non-empty identifier.
C2_IdentifierUnique ==
    \A i, j \in 1..Len(database_file) :
        (i # j /\ extract_video_id(database_file[i].url) # NoId)
            => extract_video_id(database_file[i].url)
                   # extract_video_id(database_file[j].url)

\* the status a record's handling ended with in this run
Ended(i) == conv.outcome[i] \in {"success", "timeout", "exception"}

EndStatus(i) == IF conv.outcome[i] = "success" THEN DoneTrue ELSE DoneTimeout

\* C3: at every point of a conversion run, also when the process is killed
\* there, the store file holds the outcome of every record whose handling
\* ended before the current one: done, timeout because the Download button
\* did not appear, or timeout because of an exception.
C3_PersistedAfterEachItem ==
    conv.pc \in {"loop", "save", "killed"}
        => \A i \in 1..Len(conv.data) :
              (i < conv.idx /\ Ended(i))
                  => /\ i <= Len(database_file)
                     /\ database_file[i].done = EndStatus(i)

\* the first record of a list whose url yields the identifier of url
FirstWithId(database, url) ==
    database[CHOOSE k \in 1..Len(database) :
                /\ extract_video_id(database[k].url) = extract_video_id(url)
                /\ \A m \in 1..(k - 1) :
                      extract_video_id(database[m].url)
                          # extract_video_id(url)]

\* the query just handled got a url whose identifier is the identifier of
\* a record of the store
DuplicateStep ==
    /\ InQueries
    /\ disc'.pc = "loop"
    /\ disc'.qi = disc.qi + 1
    /\ disc'.results[disc.qi] # NoUrl
    /\ extract_video_id(disc'.results[disc.qi]) # NoId
    /\ extract_video_id(disc'.results[disc.qi]) \in Ids(database_file)

\* the urls of a run's results that have no identifier or an identifier no
\* record of the store has
Fresh(results, database) ==
    {k \in 1..Len(results) :
        /\ results[k] # NoUrl
        /\ \/ extract_video_id(results[k]) = NoId
           \/ extract_video_id(results[k]) \notin Ids(database)}

\* C4: when a query resolves to a url whose identifier is the identifier of
\* a record already in the store, whatever its status, no record is added
\* for it, the query is reported as a duplicate with the first matching
\* record, and the store grows at the end of the run only by the results
\* that matched no record.
C4_DedupAgainstStore ==
    [][/\ DuplicateStep
          => /\ disc'.new_entries = disc.new_entries
             /\ database_file' = database_file
             /\ disc'.duplicates_found =
                   Append(disc.duplicates_found,
                          [new_query |-> Query,
                           existing_entry |->
                               FirstWithId(database_file,
                                           disc'.results[disc.qi])])
       /\ (disc.pc = "loop" /\ disc'.pc = "done")
          => Len(database_file') =
                Len(database_file)
                  + Cardinality(Fresh(disc.results, database_file))]_vars

\* a finished run reported a query as the duplicate of a done record that
\* has another url string, and the store still has one record
C4_Witness ==
    /\ disc.pc = "done"
    /\ Len(database_file) = 1
    /\ database_file[1].done = DoneTrue
    /\ Len(disc.duplicates_found) = 1
    /\ disc.duplicates_found[1].existing_entry = database_file[1]
    /\ disc.results[1] # database_file[1].url

\* C5: a selected record for which the Download button did not appear has
\* status timeout in the store right after it is handled and at the end of
\* the run, and is not done in the store at any point of the run.
C5_TimeoutFallback ==
    conv.pc \in {"loop", "save", "done"}
        => \A i \in 1..Len(conv.data) :
              conv.outcome[i] = "timeout"
                  => /\ i <= Len(database_file)
                     /\ database_file[i].done # DoneTrue
                     /\ (conv.pc = "loop" /\ i = conv.idx - 1)
                            => database_file[i].done = DoneTimeout
                     /\ conv.pc = "done"
                            => database_file[i].done = DoneTimeout

\* C6: an exception while a selected record is handled does not end the
\* loop and writes nothing; at the end of the run the record is timeout in
\* the store, every record after it that was not done at load was
\* attempted, and the store is what the final save wrote.
C6_FailureNeverAborts ==
    /\ [][(InLoop /\ conv'.pc # "killed"
               /\ conv'.outcome[conv.idx] = "exception")
             => /\ conv'.pc = "loop"
                /\ conv'.idx = conv.idx + 1
                /\ database_file' = database_file]_vars
    /\ [](conv.pc = "done"
             => \A i \in 1..Len(conv.outcome) :
                   conv.outcome[i] = "exception"
                       => /\ database_file = conv.data
                          /\ database_file[i].done = DoneTimeout
                          /\ \A j \in (i + 1)..Len(conv.outcome) :
                                conv.loaded[j].done # DoneTrue
                                    => conv.outcome[j]
                                           \notin {"none", "skipped"})

\* a finished run in which the first record raised and the second was
\* downloaded
C6_Witness ==
    /\ conv.pc = "done"
    /\ Len(conv.outcome) = 2
    /\ conv.outcome[1] = "exception"
    /\ conv.outcome[2] = "success"
    /\ database_file[1].done = DoneTimeout
    /\ database_file[2].done = DoneTrue

\* C7: a search failure for one query does not end the run: every query of
\* the list is handled and the new records of the run are in the store when
\* the program ends.
C7_SearchFailureNeverAborts ==
    disc.pc \in {"done", "aborted"}
        => /\ disc.qi > Len(disc.queries)
           /\ \A k \in 1..Len(disc.new_entries) :
                 \E i \in 1..Len(database_file) :
                     database_file[i] = disc.new_entries[k]

\* C8: every record of the store before a write is in the store after it,
\* at the same place, also when a load made by a pipeline fails.
C8_NeverDeleted ==
    [][\A i \in 1..Len(database_file) :
          /\ i <= Len(database_file')
          /\ database_file'[i].title = database_file[i].title
          /\ database_file'[i].url = database_file[i].url]_vars

\* a write of the store by one of the two pipelines
PipelineWrite == database_file' # database_file /\ runs' = runs

\* C9: what another writer put in the store file between two steps of a
\* run (a project, an appended record) is still there after the pipeline's
\* next write.
C9_ReloadBeforeWrite ==
    [][PipelineWrite
          => \A i \in 1..Len(database_file) :
                /\ i <= Len(database_file')
                /\ database_file'[i].url = database_file[i].url
                /\ database_file'[i].project = database_file[i].project]_vars

\* C10: the records a discovery run appends have status pending, an empty
\* download path and project, a query of the run as title and the url the
\* search returned for that query; one query with a url on an empty store
\* leaves one record.
C10_NewRecordShape ==
    [][(disc.pc = "loop" /\ disc'.pc = "done")
          => /\ \A i \in (Len(database_file) + 1)..Len(database_file') :
                   /\ database_file'[i].done = DoneFalse
                   /\ database_file'[i].download_path = ""
                   /\ database_file'[i].project = ""
                   /\ \E k \in 1..Len(disc.queries) :
                         /\ disc.results[k] # NoUrl
                         /\ database_file'[i].title = disc.queries[k]
                         /\ database_file'[i].url = disc.results[k]
             /\ (/\ database_file = <<>>
                 /\ Len(disc.queries) = 1
                 /\ disc.results[1] # NoUrl)
                    => Len(database_file') = 1]_vars

\* a finished run of one query on an empty store left its record
C10_Witness ==
    /\ disc.pc = "done"
    /\ disc.database = <<>>
    /\ disc.queries = <<"Song A">>
    /\ disc.results[1] # NoUrl
    /\ database_file =
          <<[title |-> "Song A", url |-> disc.results[1], done |-> DoneFalse,
             download_path |-> "", project |-> ""]>>

\* the step of ConvTimeout or ConvSuccess: update_database_entry has written
UpsertStep == InLoop /\ conv'.pc = "save"

\* C11: update_database_entry changes the status and the download path of
\* the record the loop is processing, and of no other record of the store,
\* also when several records have the same url.
C11_UpsertOnlyCurrent ==
    [][UpsertStep
          => database_file' =
                [database_file EXCEPT
                    ![conv.idx].done = conv'.data[conv.idx].done,
                    ![conv.idx].download_path = conv.download_dir]]_vars

\* a write of the store by update_project
ProjectWrite == database_file' # database_file /\ runs' # runs

\* C12: a failed read gives the caller the empty list and no exception: the
\* conversion run ends as a run with nothing to process, the discovery run
\* goes on as on a first run, where every url is new, and update_project
\* returns without a write (it writes only records it has loaded).
C12_LoadNeverRaises ==
    /\ [](conv.read_failed
             => /\ conv.data = <<>>
                /\ conv.pc = "done"
                /\ conv.processed_count = 0)
    /\ [](disc.read_failed
             => /\ disc.database = <<>>
                /\ disc.duplicates_found = <<>>
                /\ disc.pc \in {"loop", "done", "aborted"})
    /\ [][ProjectWrite
             => /\ database_file # <<>>
                /\ Len(database_file') = Len(database_file)]_vars

\* a conversion run whose read of a store with records failed has ended
\* as a run with nothing to process
C12_Witness ==
    /\ conv.read_failed
    /\ conv.pc = "done"
    /\ database_file # <<>>

----------------------------------------------------------------------------
(* The json text of the store file.  A text is the sequence of its objects, *)
(* an object gives each key its json value, and a json value is one of the  *)
(* literals true and false or a string.                                     *)

JsonTrue  == [type |-> "true",  text |-> ""]
JsonFalse == [type |-> "false", text |-> ""]
JsonString(s) == [type |-> "string", text |-> s]

\* json.dump of the value of "done": True, False or the str "timeout"
json_dump_done_truthy(done) ==
    IF done = DoneFalse THEN JsonFalse ELSE JsonTrue

json_dump_done(done) ==
    IF done = DoneTrue THEN JsonTrue
    ELSE IF done = DoneFalse THEN JsonFalse
    ELSE JsonString(done)

\* json.load of the value of "done"
json_load_done(value) ==
    IF value.type = "true" THEN DoneTrue
    ELSE IF value.type = "false" THEN DoneFalse
    ELSE value.text

\* json.dump(data, f, ensure_ascii=False, indent=2)
json_dump(data) ==
    [i \in 1..Len(data) |->
        [title         |-> JsonString(data[i].title),
         url           |-> JsonString(data[i].url),
         done          |-> json_dump_done(data[i].done),
         download_path |-> JsonString(data[i].download_path),
         project       |-> JsonString(data[i].project)]]

\* json.load(f)
json_load(text) ==
    [i \in 1..Len(text) |->
        [title         |-> text[i].title.text,
         url           |-> text[i].url.text,
         done          |-> json_load_done(text[i].done),
         download_path |-> text[i].download_path.text,
         project       |-> text[i].project.text]]

Strings(S) == {JsonString(s) : s \in S}

\* the objects of a store file
JsonObjects ==
    [title         : Strings(QUERIES),
     url           : Strings(URLS),
     done          : {JsonTrue, JsonFalse, JsonString(DoneTimeout)},
     download_path : Strings({""} \cup DOWNLOAD_DIRS),
     project       : Strings({""} \cup PROJECTS)]

JsonTexts == UNION {[1..n -> JsonObjects] : n \in 0..MaxRecords}

\* In this specification database_file is the json text of the file.
InitRoundTrip ==
    /\ database_file \in JsonTexts
    /\ conv = ConvIdle
    /\ disc = DiscIdle
    /\ faulty = FALSE
    /\ concurrent = FALSE
    /\ runs = 0
    /\ driver = DriverStart

\* data = load_database()
RoundTripLoad ==
    /\ conv.pc = "idle"
    /\ conv' = [ConvIdle EXCEPT
                  !.pc = "loaded",
                  !.data = json_load(database_file),
                  !.loaded = json_load(database_file)]
    /\ UNCHANGED <<database_file, disc, faulty, concurrent, runs, driver>>

\* save_database(data)
RoundTripSave ==
    /\ conv.pc = "loaded"
    /\ database_file' = json_dump(conv.data)
    /\ conv' = [conv EXCEPT !.pc = "saved"]
    /\ UNCHANGED <<disc, faulty, concurrent, runs, driver>>

NextRoundTrip == RoundTripLoad \/ RoundTripSave

SpecRoundTrip == InitRoundTrip /\ [][NextRoundTrip]_vars

----------------------------------------------------------------------------

\* what is recorded for an entry the browser was driven for
BrowserOutcomes == {"notfound", "timeout", "success", "exception"}

InRun == conv.pc \in {"loop", "save"}

\* a step of a run that goes on
RunStep == InRun /\ conv'.pc # "killed"

\* C14: a conversion run drives the browser for exactly the records that
\* were not done when it loaded the store (pending or timeout), each at most
\* once and in store order, and never for a record that was done.
C14_SelectsNotDone ==
    /\ [](conv.pc \in {"loop", "save", "done"}
             => \A i \in 1..Len(conv.loaded) :
                   /\ conv.loaded[i].done = DoneTrue
                         => conv.outcome[i] \in {"none", "skipped"}
                   /\ (conv.loaded[i].done # DoneTrue
                          /\ (i < conv.idx \/ conv.pc = "done"))
                         => conv.outcome[i] \in BrowserOutcomes
                   /\ i > conv.idx => conv.outcome[i] = "none")
    /\ [][RunStep
             => /\ conv'.idx >= conv.idx
                /\ \A i \in 1..Len(conv.outcome) :
                      conv'.outcome[i] # conv.outcome[i]
                          => i = conv.idx /\ conv.outcome[i] = "none"]_vars

\* a finished run has passed over a done record and retried a record that
\* an earlier run left in timeout
C14_Witness ==
    /\ conv.pc = "done"
    /\ Len(conv.loaded) = 2
    /\ conv.loaded[1].done = DoneTrue
    /\ conv.loaded[2].done = DoneTimeout
    /\ conv.outcome = <<"skipped", "success">>
    /\ database_file[2].done = DoneTrue

\* the input field or the Convert button was not found for the current entry
NotFoundStep ==
    InLoop /\ conv'.pc # "killed" /\ conv'.outcome[conv.idx] = "notfound"

\* C15: when the URL input field or the Convert button is not found, the
\* run writes nothing for the record and goes on with the next one; after
\* the run the record's status and download path in the store are those it
\* had before the run.
C15_EarlySkipWritesNothing ==
    /\ [][NotFoundStep
             => /\ database_file' = database_file
                /\ conv'.data = conv.data
                /\ conv'.pc = "loop"
                /\ conv'.idx = conv.idx + 1]_vars
    /\ [](conv.pc = "done"
             => \A i \in 1..Len(conv.outcome) :
                   conv.outcome[i] = "notfound"
                       => /\ database_file[i].done = conv.loaded[i].done
                          /\ database_file[i].download_path =
                                conv.loaded[i].download_path)

\* a finished run skipped its first record, which is still pending, and
\* downloaded the second
C15_Witness ==
    /\ conv.pc = "done"
    /\ conv.outcome = <<"notfound", "success">>
    /\ conv.loaded[1].done = DoneFalse
    /\ database_file[1].done = DoneFalse
    /\ database_file[1].download_path = ""
    /\ database_file[2].done = DoneTrue

\* the entries of the run with a given outcome
WithOutcome(what) == {i \in 1..Len(conv.outcome) : conv.outcome[i] = what}

SelectedAtLoad == {i \in 1..Len(conv.loaded) : conv.loaded[i].done # DoneTrue}

\* C16: a record skipped because the input field or the Convert button was
\* not found is counted as processed and not as a success: at the end of a
\* run in which no step raised, the processed count is the number of
\* selected records and the success count the number of downloads.
C16_SkippedCountsAsProcessed ==
    (conv.pc = "done" /\ WithOutcome("exception") = {})
        => /\ conv.processed_count = Cardinality(SelectedAtLoad)
           /\ conv.successful_downloads = Cardinality(WithOutcome("success"))

C18_ClickIsSuccess ==
    (\/ conv.pc = "done"
     \/ conv.pc = "loop")
        => \A i \in WithOutcome("success") :
              /\ database_file[i].done = DoneTrue
              /\ database_file[i].download_path = conv.download_dir

\* a finished run clicked Download for its record, wait_for_download
\* returned None, and the record is done with the download directory
C18_Witness ==
    /\ conv.pc = "done"
    /\ conv.outcome = <<"success">>
    /\ conv.downloaded_file = NoFile
    /\ conv.loaded[1].download_path = ""
    /\ database_file[1].done = DoneTrue
    /\ database_file[1].download_path = conv.download_dir

\* C19: update_database_entry writes the download directory into the file
\* for a record that timed out, and the save that follows takes it out
\* again: after the record's save and at the end of the run the record's
\* download path in the store is the one it had before the run.
C19_TimeoutLeavesPathUnset ==
    /\ [][(UpsertStep /\ conv'.outcome[conv.idx] = "timeout")
             => \E k \in 1..Len(database_file') :
                   /\ database_file'[k].url = Item.url
                   /\ database_file'[k].done = DoneTimeout
                   /\ database_file'[k].download_path = conv.download_dir]_vars
    /\ [](conv.pc \in {"loop", "done"}
             => \A i \in WithOutcome("timeout") :
                   database_file[i].download_path =
                       conv.loaded[i].download_path)

\* a finished run timed out on a record without download path: the record
\* is timeout in the store and its download path is still empty
C19_Witness ==
    /\ conv.pc = "done"
    /\ conv.outcome = <<"timeout">>
    /\ conv.loaded[1].download_path = ""
    /\ conv.download_dir # ""
    /\ database_file[1].done = DoneTimeout
    /\ database_file[1].download_path = ""

\* the entries of the run that reached the wait for the Download button
DownloadAttempted == WithOutcome("timeout") \cup WithOutcome("success")

\* C20: after a completed conversion run, the download path of a record for
\* which the run attempted a download is the run's download directory, and
\* a record with an empty download path is one no download was attempted
\* for.
C20_PathOfLastAttempt ==
    conv.pc = "done"
        => \A i \in 1..Len(conv.outcome) :
              /\ i \in DownloadAttempted
                    => database_file[i].download_path = conv.download_dir
              /\ database_file[i].download_path = ""
                    => i \notin DownloadAttempted

----------------------------------------------------------------------------
(* Discovery: urls without identifier, batch append, single write *)

\* the query just handled got a url that yields no identifier
NoIdStep ==
    /\ InQueries
    /\ disc'.pc = "loop"
    /\ disc'.qi = disc.qi + 1
    /\ disc'.results[disc.qi] # NoUrl
    /\ extract_video_id(disc'.results[disc.qi]) = NoId

\* C21: when the url returned for a query yields no identifier, the query
\* is not reported as a duplicate and a new record is appended for it, also
\* when the store already has a record with the same url string; the
\* record is written with the others at the end of the run.
C21_NoIdAlwaysNew ==
    /\ [][NoIdStep
             => /\ disc'.duplicates_found = disc.duplicates_found
                /\ disc'.new_entries =
                      Append(disc.new_entries,
                             result_obj(Query, disc'.results[disc.qi]))]_vars
    /\ [](disc.pc = "done"
             => \A k \in 1..Len(disc.results) :
                   (disc.results[k] # NoUrl
                       /\ extract_video_id(disc.results[k]) = NoId)
                      => \E i \in (Len(disc.database) + 1)..Len(database_file) :
                            /\ database_file[i].url = disc.results[k]
                            /\ database_file[i].title = disc.queries[k])

\* a finished run added a record for a url without identifier that the
\* store it loaded already had, and the store now has the url twice
C21_Witness ==
    /\ disc.pc = "done"
    /\ Len(disc.database) = 1
    /\ extract_video_id(disc.database[1].url) = NoId
    /\ Len(disc.new_entries) = 1
    /\ disc.new_entries[1].url = disc.database[1].url
    /\ Len(database_file) = 2
    /\ database_file[2].url = database_file[1].url

----------------------------------------------------------------------------
(* The tabs of the browser session during a conversion run.  The handling  *)
(* of an entry is split at the points where the converter site may open a  *)
(* tab: after the click on Convert, after the click on Download, and after *)
(* close_new_tabs.  Handle 0 is the tab the session starts with.           *)

\* the stores of the runs looked at: pending records only
TabsStores ==
    {[i \in 1..n |->
         result_obj(IF i % 2 = 1 THEN "Song A" ELSE "Song B",
                    MkUrl("music.youtube.com", "/watch", "abc123"))] :
        n \in 1..MaxRecords}

InitTabs ==
    /\ database_file \in TabsStores
    /\ conv = [ConvIdle EXCEPT
                 !.pc = "loop",
                 !.data = database_file,
                 !.idx = 1,
                 !.download_dir = "dl",
                 !.outcome = [i \in 1..Len(database_file) |-> "none"],
                 !.loaded = database_file]
    /\ disc = DiscIdle
    /\ faulty = FALSE
    /\ concurrent = FALSE
    /\ runs = 1
    /\ driver = DriverStart

\* the session controls a tab that is open
Controlled == driver.current_window_handle \in driver.window_handles

NewTabs == driver.window_handles \ {driver.original_window}

\* the converter site opens a tab while an entry is handled; the session
\* stays on the tab it controls
SiteOpensTab ==
    /\ conv.pc \in {"converted", "clicked", "closed"}
    /\ \E w \in 1..MaxTabs :
          /\ w \notin driver.window_handles
          /\ \A v \in 1..(w - 1) : v \in driver.window_handles
          /\ driver' = [driver EXCEPT !.window_handles = @ \cup {w}]
    /\ UNCHANGED <<database_file, conv, disc, faulty, concurrent, runs>>

\* the input field or the Convert button is not found: continue
TabsNotFound ==
    /\ InLoop
    /\ Controlled
    /\ Continue("notfound", Item.done, 0)
    /\ UNCHANGED <<database_file, disc, faulty, concurrent, runs, driver>>

\* driver.get, the url is typed, Convert is clicked
TabsConvert ==
    /\ InLoop
    /\ Controlled
    /\ conv' = [conv EXCEPT !.pc = "converted"]
    /\ UNCHANGED <<database_file, disc, faulty, concurrent, runs, driver>>

\* a step of the try block raises (driver.get does when the controlled tab
\* is closed): the except branch marks the item and continues
TabsException ==
    /\ conv.pc \in {"loop", "converted"}
    /\ conv.idx <= Len(conv.data)
    /\ conv' = [conv EXCEPT
                  !.pc = "loop",
                  !.idx = @ + 1,
                  !.data[conv.idx].done = DoneTimeout,
                  !.processed_count = @ + 1,
                  !.outcome[conv.idx] = "exception"]
    /\ UNCHANGED <<database_file, disc, faulty, concurrent, runs, driver>>

\* the Download button does not appear: no tab is closed; status update
\* and save_database(data)
TabsDownloadTimeout ==
    /\ conv.pc = "converted"
    /\ conv' = [conv EXCEPT
                  !.pc = "loop",
                  !.idx = @ + 1,
                  !.data[conv.idx].done = DoneTimeout,
                  !.processed_count = @ + 1,
                  !.outcome[conv.idx] = "timeout"]
    /\ database_file' = conv'.data
    /\ UNCHANGED <<disc, faulty, concurrent, runs, driver>>

\* download_btn.click() and original_window = driver.current_window_handle
TabsClickDownload ==
    /\ conv.pc = "converted"
    /\ Controlled
    /\ conv' = [conv EXCEPT !.pc = "clicked"]
    /\ driver' = [driver EXCEPT
                    !.original_window = driver.current_window_handle]
    /\ UNCHANGED <<database_file, disc, faulty, concurrent, runs>>

\* the session close_new_tabs leaves when no call of it raises
close_new_tabs(d) ==
    IF Cardinality(d.window_handles) > 1
    THEN [d EXCEPT !.window_handles = {d.original_window},
                   !.current_window_handle = d.original_window]
    ELSE d

TabsCloseNewTabs ==
    /\ conv.pc = "clicked"
    /\ conv' = [conv EXCEPT !.pc = "closed"]
    /\ driver' = close_new_tabs(driver)
    /\ UNCHANGED <<database_file, disc, faulty, concurrent, runs>>

\* close_new_tabs when switch_to.window(w) or close() raises for the tab w:
\* the tabs before w are closed, the exception is logged, and the session
\* is left on the tab it was on (closed by now when w was not the first)
\* or on w
TabsCloseNewTabsRaises(w, at) ==
    LET closed == {v \in NewTabs : v < w} IN
    /\ conv.pc = "clicked"
    /\ w \in NewTabs
    /\ conv' = [conv EXCEPT !.pc = "closed"]
    /\ driver' =
          [driver EXCEPT
              !.window_handles = @ \ closed,
              !.current_window_handle =
                  IF at = "close" THEN w
                  ELSE IF closed = {} THEN @
                  ELSE CHOOSE v \in closed : \A u \in closed : u <= v]
    /\ UNCHANGED <<database_file, disc, faulty, concurrent, runs>>

\* wait_for_download returns, the item is marked done; update_database_entry
\* and save_database(data)
TabsWaitForDownload(downloaded_file) ==
    /\ conv.pc = "closed"
    /\ conv' = [conv EXCEPT
                  !.pc = "loop",
                  !.idx = @ + 1,
                  !.downloaded_file = downloaded_file,
                  !.data[conv.idx].done = DoneTrue,
                  !.data[conv.idx].download_path = conv.download_dir,
                  !.successful_downloads = @ + 1,
                  !.processed_count = @ + 1,
                  !.outcome[conv.idx] = "success"]
    /\ database_file' = conv'.data
    /\ UNCHANGED <<disc, faulty, concurrent, runs, driver>>

\* summary and final save
TabsFinish ==
    /\ conv.pc = "loop"
    /\ conv.idx > Len(conv.data)
    /\ database_file' = conv.data
    /\ conv' = [conv EXCEPT !.pc = "done"]
    /\ UNCHANGED <<disc, faulty, concurrent, runs, driver>>

NextTabs ==
    \/ SiteOpensTab
    \/ TabsNotFound
    \/ TabsConvert
    \/ TabsException
    \/ TabsDownloadTimeout
    \/ TabsClickDownload
    \/ TabsCloseNewTabs
    \/ \E w \in 1..MaxTabs, at \in {"switch", "close"} :
           TabsCloseNewTabsRaises(w, at)
    \/ \E df \in DOWNLOADED_FILES : TabsWaitForDownload(df)
    \/ TabsFinish

SpecTabs == InitTabs /\ [][NextTabs]_vars

\* C22: when the loop starts on the next record after a record for which
\* the Download button was clicked, the session has one tab, the one it
\* started with, and controls it.
C22_TabHygiene ==
    (/\ InLoop
     /\ conv.idx > 1
     /\ conv.outcome[conv.idx - 1] = "success")
        => /\ driver.window_handles = {0}
           /\ driver.current_window_handle = 0

----------------------------------------------------------------------------
(* Frame of a conversion run *)

\* a write of the store by the conversion run
ConvWrite == InRun /\ conv' # conv /\ database_file' # database_file

\* C23: after every write of the store by a conversion run the store has
\* the records the run loaded, in the same order, each with the title, url
\* and project it was loaded with; only done and download_path differ.
C23_OnlyStatusAndPath ==
    [][(ConvWrite \/ (conv.pc = "loop" /\ conv'.pc = "done"))
          => /\ Len(database_file') = Len(conv.loaded)
             /\ \A i \in 1..Len(conv.loaded) :
                   /\ database_file'[i].title = conv.loaded[i].title
                   /\ database_file'[i].url = conv.loaded[i].url
                   /\ database_file'[i].project = conv.loaded[i].project]_vars

\* a finished run has marked done a record that manual curation had given
\* a project, and the record still has its title, url and project
C23_Witness ==
    /\ conv.pc = "done"
    /\ Len(conv.loaded) = 1
    /\ conv.loaded[1].project = "mix"
    /\ conv.loaded[1].done = DoneFalse
    /\ conv.outcome = <<"success">>
    /\ database_file[1].done = DoneTrue
    /\ database_file[1].download_path = conv.download_dir
    /\ database_file[1].project = "mix"
    /\ database_file[1].title = conv.loaded[1].title
    /\ database_file[1].url = conv.loaded[1].url

----------------------------------------------------------------------------
(* Batch append of a discovery run *)

\* the records for the first k queries of the run whose url was not that
\* of a duplicate of the loaded store, in query order
RECURSIVE NewRecords(_)
NewRecords(k) ==
    IF k = 0 THEN <<>>
    ELSE IF k \in Fresh(disc.results, disc.database)
         THEN Append(NewRecords(k - 1),
                     result_obj(disc.queries[k], disc.results[k]))
         ELSE NewRecords(k - 1)

NoResults == {k \in 1..Len(disc.results) : disc.results[k] = NoUrl}

\* C24: after a discovery run that completes, the store is the store the
\* run loaded followed by the run's new records in query order, it has
\* grown by the number of new records, and the number of processed queries
\* is the number of queries and the sum of the new, duplicate and no-result
\* ones.
C24_BatchAppend ==
    disc.pc = "done"
        => /\ database_file = disc.database \o disc.new_entries
           /\ disc.new_entries = NewRecords(Len(disc.queries))
           /\ Len(database_file)
                 = Len(disc.database) + Len(disc.new_entries)
           /\ disc.processed_count = Len(disc.queries)
           /\ disc.processed_count
                 = Len(disc.new_entries) + Len(disc.duplicates_found)
                       + Cardinality(NoResults)

\* a finished run over two queries found one duplicate of the record it
\* loaded and one new record, and the store has both records
C24_Witness ==
    /\ disc.pc = "done"
    /\ Len(disc.queries) = 2
    /\ Len(disc.database) = 1
    /\ Len(disc.duplicates_found) = 1
    /\ Len(disc.new_entries) = 1
    /\ database_file = <<disc.database[1], disc.new_entries[1]>>

----------------------------------------------------------------------------
(* The single write of a discovery run *)

\* a step of the discovery run: its start, a query, its end
DiscStep == disc' # disc /\ disc'.pc \in {"loop", "done", "aborted"}

\* C25: a discovery run writes the store file only in the step that ends
\* it after the last query, and only when it has found a new record; a run
\* that found no new record and a run that an exception stopped leave the
\* file as the run loaded it.
C25_SingleWrite ==
    /\ [][(DiscStep /\ database_file' # database_file)
             => /\ disc.pc = "loop"
                /\ disc.qi > Len(disc.queries)
                /\ disc'.pc = "done"
                /\ disc.new_entries # <<>>]_vars
    /\ [](((disc.pc = "done" /\ disc.new_entries = <<>>)
              \/ disc.pc = "aborted")
             => database_file = disc.database)

\* a run that had found a new record was stopped by an exception at its
\* second query, and the store still is the one record the run loaded
C25_Witness ==
    /\ disc.pc = "aborted"
    /\ disc.qi = 2
    /\ Len(disc.new_entries) = 1
    /\ Len(disc.database) = 1
    /\ database_file = disc.database

====
